---- MODULE Spec2Model ----
(***************************************************************************)
(* Model of the Cpp code generator, src/src/js/utils/blockly/cpp.js:       *)
(* Blockly.Cpp.init, finish, quote_, scrub_ and getAdjusted.               *)
(*                                                                         *)
(* JavaScript strings are sequences of one-character strings.  A value a   *)
(* function returns is a record tagged with its JavaScript type, so that a *)
(* number and the text of a numeral are different values.                  *)
(***************************************************************************)
EXTENDS Integers, Sequences, FiniteSets, TLC

VARIABLES
    definitions_,    \* Blockly.Cpp.definitions_   : Undefined or Obj(seq of [name, def])
    functionNames_,  \* Blockly.Cpp.functionNames_ : Undefined or Obj(<<>>)
    variableDB_,     \* Blockly.Cpp.variableDB_    : Undefined or Obj([db_, dbReverse_])
    recorded,        \* history: the entries written to definitions_ since the last init
    stale,           \* history: the latest init found a name of its workspace in the registry
    call,            \* the call being made / last made: [op |-> ..., arguments]
    ret              \* what that call returned (or threw); Pending before it ran

vars == <<definitions_, functionNames_, variableDB_, recorded, stale, call, ret>>
gen  == <<definitions_, functionNames_, variableDB_, recorded, stale>>

----------------------------------------------------------------------------
(* JavaScript values *)

Undefined == [exists |-> FALSE]
Obj(v)    == [exists |-> TRUE, val |-> v]

Pending   == [type |-> "pending"]
Void      == [type |-> "undefined"]
Num(n)    == [type |-> "number", value |-> n]
Str(s)    == [type |-> "string", value |-> s]
Throw(e)  == [type |-> "throw", error |-> e]

(* The generator's fields right after the module is loaded: none of the three
   tables has been created yet. *)
Loaded ==
    /\ definitions_ = Undefined
    /\ functionNames_ = Undefined
    /\ variableDB_ = Undefined
    /\ recorded = <<>>
    /\ stale = FALSE

----------------------------------------------------------------------------
(* Strings *)

RECURSIVE SeqsUpTo(_, _)
SeqsUpTo(S, n) ==
    IF n = 0 THEN {<<>>}
    ELSE LET shorter == SeqsUpTo(S, n - 1)
         IN  shorter \cup {Append(s, c) : s \in {t \in shorter : Len(t) = n - 1}, c \in S}

(* string.replace(/c/g, r): every occurrence of the character c becomes r. *)
RECURSIVE ReplaceAll(_, _, _)
ReplaceAll(s, c, r) ==
    IF s = <<>> THEN <<>>
    ELSE (IF Head(s) = c THEN r ELSE <<Head(s)>>) \o ReplaceAll(Tail(s), c, r)

----------------------------------------------------------------------------
(* Blockly.Cpp.quote_ *)

BS == "\\"
NL == "\n"
SQ == "'"
DOLLAR == "$"

(* The replacement text of the second replace is the JavaScript literal
   '\\\n': a backslash followed by a newline character. *)
quote_(string) ==
    LET s1 == ReplaceAll(string, BS, <<BS, BS>>)
        s2 == ReplaceAll(s1, NL, <<BS, NL>>)
        s3 == ReplaceAll(s2, DOLLAR, <<BS, DOLLAR>>)
        s4 == ReplaceAll(s3, SQ, <<BS, SQ>>)
    IN  <<SQ>> \o s4 \o <<SQ>>

MaxQuoteLen == 3
QuoteChars == {"a", "n", BS, NL, DOLLAR, SQ}
QuoteInputs == SeqsUpTo(QuoteChars, MaxQuoteLen)

InitQuote ==
    /\ Loaded
    /\ call \in {[op |-> "quote_", string |-> s] : s \in QuoteInputs}
    /\ ret = Pending

Quote ==
    /\ call.op = "quote_"
    /\ ret = Pending
    /\ ret' = Str(quote_(call.string))
    /\ UNCHANGED <<call, gen>>

NextQuote == Quote
SpecQuote == InitQuote /\ [][NextQuote]_vars

(* Reading an escaped text back: a backslash followed by n is a newline, a
   backslash followed by any other character is that character. *)
RECURSIVE Unescape(_)
Unescape(s) ==
    IF s = <<>> THEN <<>>
    ELSE IF Head(s) = BS /\ Len(s) >= 2
         THEN <<IF s[2] = "n" THEN NL ELSE s[2]>> \o Unescape(Tail(Tail(s)))
         ELSE <<Head(s)>> \o Unescape(Tail(s))

RECURSIVE Escaped(_)
Escaped(s) ==
    IF s = <<>> THEN <<>>
    ELSE (CASE Head(s) = BS     -> <<BS, BS>>
            [] Head(s) = NL     -> <<BS, "n">>
            [] Head(s) = DOLLAR -> <<BS, DOLLAR>>
            [] Head(s) = SQ     -> <<BS, SQ>>
            [] OTHER            -> <<Head(s)>>) \o Escaped(Tail(s))

Inner(s) == SubSeq(s, 2, Len(s) - 1)

(* C3: quote_ returns the input between single quotes with every backslash
   doubled, every newline turned into backslash-n (no raw newline left),
   every $ and ' preceded by a backslash, so that un-escaping the result
   gives back the input. *)
C3_QuoteEscapes ==
    (call.op = "quote_" /\ ret # Pending) =>
        LET out == ret.value
        IN  /\ Len(out) >= 2
            /\ out[1] = SQ
            /\ out[Len(out)] = SQ
            /\ Inner(out) = Escaped(call.string)
            /\ \A i \in 1..Len(out) : out[i] # NL
            /\ Unescape(Inner(out)) = call.string

----------------------------------------------------------------------------
(* Numbers and numerals *)

Digits == <<"0", "1", "2", "3", "4", "5", "6", "7", "8", "9">>
Whitespace == {" ", "\t", "\n"}

IsDigit(c) == \E d \in 1..10 : Digits[d] = c
DigitValue(c) == (CHOOSE d \in 1..10 : Digits[d] = c) - 1

(* String(n) for an integer n. *)
RECURSIVE NatToStr(_)
NatToStr(n) ==
    IF n < 10 THEN <<Digits[n + 1]>>
    ELSE NatToStr(n \div 10) \o <<Digits[(n % 10) + 1]>>

NumToStr(n) == IF n < 0 THEN <<"-">> \o NatToStr(-n) ELSE NatToStr(n)

RECURSIVE DropLeadingWS(_)
DropLeadingWS(s) ==
    IF s # <<>> /\ Head(s) \in Whitespace THEN DropLeadingWS(Tail(s)) ELSE s

RECURSIVE DropTrailingWS(_)
DropTrailingWS(s) ==
    IF s # <<>> /\ s[Len(s)] \in Whitespace
    THEN DropTrailingWS(SubSeq(s, 1, Len(s) - 1))
    ELSE s

RECURSIVE DigitPrefixLen(_)
DigitPrefixLen(s) ==
    IF s # <<>> /\ IsDigit(Head(s)) THEN 1 + DigitPrefixLen(Tail(s)) ELSE 0

RECURSIVE DigitsValue(_)
DigitsValue(s) ==
    IF s = <<>> THEN 0
    ELSE 10 * DigitsValue(SubSeq(s, 1, Len(s) - 1)) + DigitValue(s[Len(s)])

DropSign(s) == IF s # <<>> /\ Head(s) = "-" THEN Tail(s) ELSE s

(* Blockly.isNumber(str): str matches /^\s*-?\d+(\.\d+)?\s*$/. *)
isNumber(str) ==
    LET t    == DropSign(DropTrailingWS(DropLeadingWS(str)))
        n    == DigitPrefixLen(t)
        rest == SubSeq(t, n + 1, Len(t))
    IN  /\ n >= 1
        /\ \/ rest = <<>>
           \/ /\ Len(rest) >= 2
              /\ rest[1] = "."
              /\ DigitPrefixLen(Tail(rest)) = Len(rest) - 1

(* parseInt(str, 10) of a string with at least one leading digit after the
   optional whitespace and sign: the digits up to the first non-digit. *)
parseInt(str) ==
    LET t == DropLeadingWS(str)
        u == DropSign(t)
        v == DigitsValue(SubSeq(u, 1, DigitPrefixLen(u)))
    IN  IF t # u THEN -v ELSE v

----------------------------------------------------------------------------
(* Order of operation ENUMs *)

ORDER_ATOMIC == 0
ORDER_UNARY_POSTFIX == 1
ORDER_UNARY_PREFIX == 2
ORDER_MULTIPLICATIVE == 3
ORDER_ADDITIVE == 4
ORDER_SHIFT == 5
ORDER_BITWISE_AND == 6
ORDER_BITWISE_XOR == 7
ORDER_BITWISE_OR == 8
ORDER_RELATIONAL == 9
ORDER_EQUALITY == 10
ORDER_LOGICAL_AND == 11
ORDER_LOGICAL_OR == 12
ORDER_IF_NULL == 13
ORDER_CONDITIONAL == 14
ORDER_CASCADE == 15
ORDER_ASSIGNMENT == 16
ORDER_NONE == 99

Orders ==
    {ORDER_ATOMIC, ORDER_UNARY_POSTFIX, ORDER_UNARY_PREFIX, ORDER_MULTIPLICATIVE,
     ORDER_ADDITIVE, ORDER_SHIFT, ORDER_BITWISE_AND, ORDER_BITWISE_XOR,
     ORDER_BITWISE_OR, ORDER_RELATIONAL, ORDER_EQUALITY, ORDER_LOGICAL_AND,
     ORDER_LOGICAL_OR, ORDER_IF_NULL, ORDER_CONDITIONAL, ORDER_CASCADE,
     ORDER_ASSIGNMENT, ORDER_NONE}

(* An optional argument is <<>> when omitted and <<v>> when passed. *)
Omitted == <<>>
Passed(v) == <<v>>

----------------------------------------------------------------------------
(* Blockly.Cpp.valueToCode, as getAdjusted uses it *)

Paren(code) == <<"(">> \o code \o <<")">>

(* The socket is Undefined (nothing plugged in) or Obj([code, order]): the
   text and the precedence the plugged block's generator returns.  The result
   is '' for an unconnected socket; the text is parenthesized when the outer
   order binds at least as tightly as the inner one, except atomic in atomic
   and none in none. *)
valueToCode(socket, outerOrder) ==
    IF ~socket.exists THEN <<>>
    ELSE LET code == socket.val.code
             innerOrder == socket.val.order
         IN  IF code = <<>> THEN <<>>
             ELSE IF /\ outerOrder <= innerOrder
                     /\ ~(/\ outerOrder = innerOrder
                          /\ outerOrder \in {ORDER_ATOMIC, ORDER_NONE})
                  THEN Paren(code)
                  ELSE code

----------------------------------------------------------------------------
(* Blockly.Cpp.getAdjusted *)

(* opt_delta || 0, then one less in a workspace that counts from one. *)
ResidualDelta(oneBasedIndex, opt_delta) ==
    LET delta == IF opt_delta = Omitted THEN 0 ELSE opt_delta[1]
    IN  IF oneBasedIndex THEN delta - 1 ELSE delta

(* opt_order || ORDER_NONE: the default for an omitted argument and for 0. *)
RequiredOrder(opt_order) ==
    IF opt_order = Omitted \/ opt_order[1] = 0 THEN ORDER_NONE ELSE opt_order[1]

(* The order valueToCode is called with. *)
SocketOrder(delta, opt_negate, order) ==
    IF delta # 0 THEN ORDER_ADDITIVE
    ELSE IF opt_negate THEN ORDER_UNARY_PREFIX
    ELSE order

(* valueToCode(...) || defaultAtIndex *)
ResolveAt(oneBasedIndex, socket, delta, opt_negate, order) ==
    LET defaultAtIndex == IF oneBasedIndex THEN <<"1">> ELSE <<"0">>
        code == valueToCode(socket, SocketOrder(delta, opt_negate, order))
    IN  IF code = <<>> THEN defaultAtIndex ELSE code

AdjustNumber_DropsDelta(at, delta, opt_negate) ==
    Num(IF opt_negate THEN -parseInt(at) ELSE parseInt(at))

(* The index is a naked number: adjust it right now. *)
AdjustNumber(at, delta, opt_negate) ==
    LET n == parseInt(at) + delta
    IN  Num(IF opt_negate THEN -n ELSE n)

AdjustDynamic_UnguardedOrder(at, delta, opt_negate, order) ==
    LET at1 == IF delta > 0 THEN at \o <<" ", "+", " ">> \o NumToStr(delta)
               ELSE IF delta < 0 THEN at \o <<" ", "-", " ">> \o NumToStr(-delta)
               ELSE at
        at2 == IF opt_negate
               THEN (IF delta # 0 THEN <<"-", "(">> \o at1 \o <<")">>
                     ELSE <<"-">> \o at1)
               ELSE at1
        innerOrder == IF opt_negate THEN ORDER_UNARY_PREFIX
                      ELSE IF delta # 0 THEN ORDER_ADDITIVE
                      ELSE ORDER_ATOMIC
    IN  IF order >= innerOrder THEN Str(Paren(at2)) ELSE Str(at2)

(* The index is dynamic: adjust it in code.  innerOrder stays undefined when
   neither an offset nor a negation is emitted; Math.floor(undefined) is NaN,
   which is falsy.  The orders are integers, so Math.floor leaves them as
   they are. *)
AdjustDynamic(at, delta, opt_negate, order) ==
    LET at1 == IF delta > 0 THEN at \o <<" ", "+", " ">> \o NumToStr(delta)
               ELSE IF delta < 0 THEN at \o <<" ", "-", " ">> \o NumToStr(-delta)
               ELSE at
        at2 == IF opt_negate
               THEN (IF delta # 0 THEN <<"-", "(">> \o at1 \o <<")">>
                     ELSE <<"-">> \o at1)
               ELSE at1
        innerOrder == IF opt_negate THEN Passed(ORDER_UNARY_PREFIX)
                      ELSE IF delta # 0 THEN Passed(ORDER_ADDITIVE)
                      ELSE Omitted
    IN  IF innerOrder # Omitted /\ innerOrder[1] # 0 /\ order >= innerOrder[1]
        THEN Str(Paren(at2))
        ELSE Str(at2)

getAdjusted(oneBasedIndex, socket, opt_delta, opt_negate, opt_order) ==
    LET delta == ResidualDelta(oneBasedIndex, opt_delta)
        order == RequiredOrder(opt_order)
        at    == ResolveAt(oneBasedIndex, socket, delta, opt_negate, order)
    IN  IF isNumber(at)
        THEN AdjustNumber(at, delta, opt_negate)
        ELSE AdjustDynamic(at, delta, opt_negate, order)

MaxDelta == 2

(* What can be plugged into the index socket: nothing, a variable, a
   function call, a subtraction, and number blocks. *)
Sockets ==
    {Undefined,
     Obj([code |-> <<"x">>, order |-> ORDER_ATOMIC]),
     Obj([code |-> <<"f", "(", ")">>, order |-> ORDER_UNARY_POSTFIX]),
     Obj([code |-> <<"a", " ", "-", " ", "b">>, order |-> ORDER_ADDITIVE]),
     Obj([code |-> <<"5">>, order |-> ORDER_ATOMIC]),
     Obj([code |-> <<"1", "2">>, order |-> ORDER_ATOMIC]),
     Obj([code |-> <<"-", "3">>, order |-> ORDER_UNARY_PREFIX]),
     Obj([code |-> <<"1", ".", "5">>, order |-> ORDER_ATOMIC])}

AdjustCalls ==
    [op : {"getAdjusted"},
     oneBasedIndex : BOOLEAN,
     socket : Sockets,
     opt_delta : {Omitted} \cup {Passed(d) : d \in (-MaxDelta)..MaxDelta},
     opt_negate : BOOLEAN,
     opt_order : {Omitted} \cup {Passed(o) : o \in Orders}]

InitAdjust ==
    /\ Loaded
    /\ call \in AdjustCalls
    /\ ret = Pending

Adjust ==
    /\ call.op = "getAdjusted"
    /\ ret = Pending
    /\ ret' = getAdjusted(call.oneBasedIndex, call.socket, call.opt_delta,
                          call.opt_negate, call.opt_order)
    /\ UNCHANGED <<call, gen>>

NextAdjust == Adjust
SpecAdjust == InitAdjust /\ [][NextAdjust]_vars

(* The call's operand: the text valueToCode resolves the socket to in this
   call, '' when nothing is plugged in. *)
Operand ==
    valueToCode(call.socket,
                SocketOrder(ResidualDelta(call.oneBasedIndex, call.opt_delta),
                            call.opt_negate, RequiredOrder(call.opt_order)))

DeltaPassed == IF call.opt_delta = Omitted THEN 0 ELSE call.opt_delta[1]
Adjusted == call.op = "getAdjusted" /\ ret # Pending

(* A literal integer numeral: an optional minus sign and digits. *)
IsIntegerNumeral(s) ==
    /\ DropSign(s) # <<>>
    /\ \A i \in 1..Len(DropSign(s)) : IsDigit(DropSign(s)[i])

NumeralValue(s) ==
    IF Head(s) = "-" THEN -DigitsValue(Tail(s)) ELSE DigitsValue(s)

OffsetText(operand, d) ==
    IF d > 0 THEN operand \o <<" ", "+", " ">> \o NumToStr(d)
    ELSE operand \o <<" ", "-", " ">> \o NumToStr(-d)

(* C1: for a non-literal operand, a nonzero delta and no negation,
   getAdjusted returns '<operand> + <delta>' (delta > 0) or
   '<operand> - <|delta|>' (delta < 0), in parentheses if and only if the
   order the caller requires is at most ORDER_ADDITIVE; an omitted order is
   ORDER_NONE.  Stated for a zero-based workspace, where the delta passed is
   the delta applied. *)
C1_OffsetParenthesizedIffOrderAtMostAdditive ==
    (/\ Adjusted
     /\ ~call.oneBasedIndex
     /\ ~call.opt_negate
     /\ DeltaPassed # 0
     /\ Operand # <<>>
     /\ ~isNumber(Operand)) =>
        LET text == OffsetText(Operand, DeltaPassed)
            required == IF call.opt_order = Omitted THEN ORDER_NONE
                        ELSE call.opt_order[1]
        IN  ret = Str(IF required <= ORDER_ADDITIVE THEN Paren(text) ELSE text)

(* C2 as stated: for a literal integer operand and a nonzero delta,
   getAdjusted returns the number operand + delta (negated when negation is
   requested), whichever index base the workspace has. *)
C2_FoldsDeltaPassed ==
    (Adjusted /\ DeltaPassed # 0 /\ IsIntegerNumeral(Operand)) =>
        LET n == NumeralValue(Operand) + DeltaPassed
        IN  ret = Num(IF call.opt_negate THEN -n ELSE n)

(* C2, amended: for a literal integer operand and a nonzero delta,
   getAdjusted returns the number operand + d (negated when negation is
   requested), never a text, where d is the delta passed in a zero-based
   workspace and the delta passed less one when oneBasedIndex is set. *)
C2_FoldsResidualDelta ==
    (Adjusted /\ DeltaPassed # 0 /\ IsIntegerNumeral(Operand)) =>
        LET d == IF call.oneBasedIndex THEN DeltaPassed - 1 ELSE DeltaPassed
            n == NumeralValue(Operand) + d
        IN  ret = Num(IF call.opt_negate THEN -n ELSE n)

C2_Witness ==
    /\ Adjusted
    /\ call.oneBasedIndex
    /\ call.opt_negate
    /\ DeltaPassed = 2
    /\ Operand = <<"1", "2">>
    /\ ret = Num(-13)

(* C7 as stated: with zero delta and no negation getAdjusted returns the
   operand text unchanged, and for an unconnected socket the string '0'
   (zero-based) or '1' (oneBasedIndex). *)
C7_ZeroDeltaReturnsOperandText ==
    (Adjusted /\ DeltaPassed = 0 /\ ~call.opt_negate) =>
        ret = Str(IF Operand # <<>> THEN Operand
                  ELSE IF call.oneBasedIndex THEN <<"1">> ELSE <<"0">>)

(* C7, amended: with no negation and a delta that leaves nothing to add
   (0 or omitted in a zero-based workspace, 1 when oneBasedIndex is set),
   getAdjusted returns an operand that is not a numeral as the same text,
   without parentheses; a numeral operand comes back as a number (an integer
   numeral as its value), and an unconnected socket gives the number 0 in a
   zero-based workspace and the number 1 when oneBasedIndex is set. *)
C7_NoOffsetReturnsOperand ==
    (/\ Adjusted
     /\ ~call.opt_negate
     /\ DeltaPassed = (IF call.oneBasedIndex THEN 1 ELSE 0)) =>
        IF Operand = <<>>
        THEN ret = Num(IF call.oneBasedIndex THEN 1 ELSE 0)
        ELSE IF isNumber(Operand)
        THEN /\ ret.type = "number"
             /\ IsIntegerNumeral(Operand) => ret = Num(NumeralValue(Operand))
        ELSE ret = Str(Operand)

C7_Witness ==
    /\ Adjusted
    /\ ~call.opt_negate
    /\ call.oneBasedIndex
    /\ DeltaPassed = 1
    /\ call.opt_order = Passed(ORDER_MULTIPLICATIVE)
    /\ Operand = <<"(", "a", " ", "-", " ", "b", ")">>
    /\ ret = Str(Operand)

----------------------------------------------------------------------------
(* Blockly.Cpp.scrub_ *)

MaxChain == 3

(* A statement chain is a sequence of statement blocks, each connected to the
   next.  Every statement block may carry a comment and may have one value
   input, into which a value block is plugged ("plain") that may itself carry
   a comment ("commented").  A procedure definition has no next connection,
   so it is a chain of its own.  A block is named <<"stmt", i>> or
   <<"value", i>> (the block plugged into statement i). *)
StmtBlocks ==
    [comment : BOOLEAN, procedureDef : BOOLEAN, arg : {"none", "plain", "commented"}]

Chains ==
    {c \in SeqsUpTo(StmtBlocks, MaxChain) :
        /\ c # <<>>
        /\ \A i \in 1..Len(c) : c[i].procedureDef => Len(c) = 1}

IsValue(block) == block[1] = "value"

(* block.outputConnection && block.outputConnection.targetConnection *)
PluggedIn(chain, block) == IsValue(block)

(* block.getCommentText() is '' when the block has no comment. *)
HasComment(chain, block) ==
    IF IsValue(block) THEN chain[block[2]].arg = "commented"
    ELSE chain[block[2]].comment

(* The blocks plugged into the block's inputs of type INPUT_VALUE. *)
ValueChildren(chain, block) ==
    IF ~IsValue(block) /\ chain[block[2]].arg # "none"
    THEN <<(<<"value", block[2]>>)>>
    ELSE <<>>

(* block.nextConnection && block.nextConnection.targetBlock(): <<>> is null. *)
NextBlock(chain, block) ==
    IF ~IsValue(block) /\ block[2] < Len(chain)
    THEN <<"stmt", block[2] + 1>>
    ELSE <<>>

(* The generated text is a sequence of pieces: the code a block's generator
   emits for the block itself, and the comment of a block behind a prefix. *)
CodeOf(block) == [kind |-> "code", block |-> block]
CommentOf(block, prefix) == [kind |-> prefix, block |-> block]

(* Blockly.Cpp.allNestedComments(childBlock): the comments of the child and
   its descendants; a plugged value block here has no descendants. *)
allNestedComments(chain, child) ==
    IF HasComment(chain, child) THEN <<child>> ELSE <<>>

RECURSIVE blockToCode(_, _)
RECURSIVE scrub_(_, _, _)

CommentCode(chain, block) ==
    IF ~PluggedIn(chain, block)
    THEN LET own == IF HasComment(chain, block)
                    THEN <<CommentOf(block,
                               IF ~IsValue(block) /\ chain[block[2]].procedureDef
                               THEN "/// " ELSE "// ")>>
                    ELSE <<>>
             children == ValueChildren(chain, block)
             nested == IF children # <<>> /\ allNestedComments(chain, children[1]) # <<>>
                       THEN <<CommentOf(children[1], "// ")>>
                       ELSE <<>>
         IN  own \o nested
    ELSE <<>>

scrub_CommentAfterCode(chain, block, code) ==
    code \o CommentCode(chain, block) \o blockToCode(chain, NextBlock(chain, block))

scrub_(chain, block, code) ==
    CommentCode(chain, block) \o code \o blockToCode(chain, NextBlock(chain, block))

(* Blockly.Cpp.blockToCode(block): '' for no block; otherwise the block's
   generator makes the block's code, which holds the code of the plugged
   value block (itself passed through blockToCode), and scrub_ completes it. *)
blockToCode(chain, block) ==
    IF block = <<>> THEN <<>>
    ELSE LET children == ValueChildren(chain, block)
             code == <<CodeOf(block)>> \o
                     (IF children # <<>> THEN blockToCode(chain, children[1]) ELSE <<>>)
         IN  scrub_(chain, block, code)

InitScrub ==
    /\ Loaded
    /\ call \in {[op |-> "generate", chain |-> c] : c \in Chains}
    /\ ret = Pending

Generate ==
    /\ call.op = "generate"
    /\ ret = Pending
    /\ ret' = Str(blockToCode(call.chain, <<"stmt", 1>>))
    /\ UNCHANGED <<call, gen>>

NextScrub == Generate
SpecScrub == InitScrub /\ [][NextScrub]_vars

Generated == call.op = "generate" /\ ret # Pending

(* Where a piece stands in the output; 0 when it is not there. *)
Pos(piece) ==
    IF \E i \in 1..Len(ret.value) : ret.value[i] = piece
    THEN CHOOSE i \in 1..Len(ret.value) : ret.value[i] = piece
    ELSE 0

Once(piece) == Cardinality({i \in 1..Len(ret.value) : ret.value[i] = piece}) = 1

(* The comment pieces of statement i: its own comment and the comment of
   the block plugged into its value input. *)
CommentPieces(i) ==
    {ret.value[k] : k \in {j \in 1..Len(ret.value) :
        /\ ret.value[j].kind # "code"
        /\ ret.value[j].block[2] = i}}

(* C4 as stated: for each block with a next block the output holds the
   block's own code, then the block's comment text, then the next block's
   code. *)
C4_CodeThenCommentThenNext ==
    Generated =>
        \A i \in 1..(Len(call.chain) - 1) :
            /\ Pos(CodeOf(<<"stmt", i>>)) < Pos(CodeOf(<<"stmt", i + 1>>))
            /\ \A c \in CommentPieces(i) :
                /\ Pos(CodeOf(<<"stmt", i>>)) < Pos(c)
                /\ Pos(c) < Pos(CodeOf(<<"stmt", i + 1>>))

(* C4, amended: for every statement chain the output holds, for each block,
   the block's comment text (its own comment, then the comments of its
   connected value inputs) first, then the block's own code, and for a block
   with a next block all of that before the next block's comment text and
   code; the blocks come in the order of the next-connection chain whichever
   of them carry comments. *)
C4_CommentThenCodeThenNext ==
    Generated =>
        /\ \A i \in 1..Len(call.chain) :
            /\ Once(CodeOf(<<"stmt", i>>))
            /\ call.chain[i].comment <=>
                   \E c \in CommentPieces(i) : c.block = <<"stmt", i>>
            /\ (call.chain[i].arg = "commented") <=>
                   \E c \in CommentPieces(i) : c.block = <<"value", i>>
            /\ \A c \in CommentPieces(i) :
                /\ Once(c)
                /\ Pos(c) < Pos(CodeOf(<<"stmt", i>>))
                /\ \A d \in CommentPieces(i) :
                       (~IsValue(c.block) /\ IsValue(d.block)) => Pos(c) < Pos(d)
        /\ \A i \in 1..(Len(call.chain) - 1) :
            /\ Pos(CodeOf(<<"stmt", i>>)) < Pos(CodeOf(<<"stmt", i + 1>>))
            /\ \A c \in CommentPieces(i + 1) : Pos(CodeOf(<<"stmt", i>>)) < Pos(c)

C4_Witness ==
    /\ Generated
    /\ Len(call.chain) = 3
    /\ call.chain[1].comment
    /\ ~call.chain[2].comment
    /\ call.chain[2].arg = "none"
    /\ Pos(CommentOf(<<"stmt", 1>>, "// ")) = 1
    /\ Pos(CodeOf(<<"stmt", 1>>)) = 2
    /\ Pos(CodeOf(<<"stmt", 2>>)) = 3

----------------------------------------------------------------------------
(* Blockly.Names: the Name Registry behind Blockly.Cpp.variableDB_ *)

VARIABLE_TYPE == "VARIABLE"     \* Blockly.Variables.NAME_TYPE
PROCEDURE_TYPE == "PROCEDURE"   \* Blockly.Procedures.NAME_TYPE

(* Some of the reserved words passed to addReservedWords. *)
RESERVED_WORDS_ ==
    {<<"d", "o">>, <<"i", "f">>, <<"i", "n">>, <<"i", "s">>,
     <<"i", "n", "t">>, <<"v", "a", "r">>, <<"n", "u", "m">>}

EmptyNames == [db_ |-> {}, dbReverse_ |-> {}]

(* Names.prototype.reset *)
reset(names) == [db_ |-> {}, dbReverse_ |-> {}]

toLowerCase(name) == [i \in 1..Len(name) |-> IF name[i] = "X" THEN "x" ELSE name[i]]

(* Names.prototype.safeName_: 'unnamed' for the empty name; a space becomes
   an underscore and a leading digit gets the prefix my_. *)
safeName_(name) ==
    IF name = <<>> THEN <<"u", "n", "n", "a", "m", "e", "d">>
    ELSE LET n == ReplaceAll(name, " ", <<"_">>)
         IN  IF IsDigit(n[1]) THEN <<"m", "y", "_">> \o n ELSE n

(* Names.prototype.getDistinctName: the safe name, with the first of the
   suffixes '', 2, 3, ... that is neither taken nor reserved. *)
RECURSIVE DistinctFrom(_, _, _)
DistinctFrom(names, safeName, i) ==
    LET candidate == IF i = 0 THEN safeName ELSE safeName \o NatToStr(i)
    IN  IF candidate \in names.dbReverse_ \/ candidate \in RESERVED_WORDS_
        THEN DistinctFrom(names, safeName, IF i = 0 THEN 2 ELSE i + 1)
        ELSE candidate

getDistinctName(names, name, type) ==
    LET safeName == DistinctFrom(names, safeName_(name), 0)
    IN  [name |-> safeName,
         names |-> [names EXCEPT !.dbReverse_ = @ \cup {safeName}]]

(* Names.prototype.getName: the name already given to the normalized name,
   or a distinct one, which is then remembered. *)
getName(names, name, type) ==
    LET normalized == <<toLowerCase(name), type>>
    IN  IF \E e \in names.db_ : e[1] = normalized
        THEN [name |-> (CHOOSE e \in names.db_ : e[1] = normalized)[2],
              names |-> names]
        ELSE LET d == getDistinctName(names, name, type)
             IN  [name |-> d.name,
                  names |-> [d.names EXCEPT !.db_ = @ \cup {<<normalized, d.name>>}]]

----------------------------------------------------------------------------
(* Blockly.Cpp.init *)

(* The loop of init: defvars[i] = variableDB_.getName(variables[i].name, ...) *)
RECURSIVE DefVars(_, _)
DefVars(names, variables) ==
    IF variables = <<>> THEN [defvars |-> <<>>, names |-> names]
    ELSE LET g == getName(names, Head(variables), VARIABLE_TYPE)
             r == DefVars(g.names, Tail(variables))
         IN  [defvars |-> <<g.name>> \o r.defvars, names |-> r.names]

(* Array.prototype.join *)
RECURSIVE join(_, _)
join(list, sep) ==
    IF list = <<>> THEN <<>>
    ELSE IF Len(list) = 1 THEN list[1]
    ELSE list[1] \o sep \o join(Tail(list), sep)

(* definitions_[name] = def: a new key goes last, a key already there keeps
   its place. *)
SetEntry(table, name, def) ==
    IF \E i \in 1..Len(table) : table[i].name = name
    THEN [i \in 1..Len(table) |->
             IF table[i].name = name THEN [name |-> name, def |-> def] ELSE table[i]]
    ELSE Append(table, [name |-> name, def |-> def])

VariablesKey == "variables"

(* 'var ' + defvars.join(', ') + ';' *)
VariablesDef(defvars) ==
    <<"v", "a", "r", " ">> \o join(defvars, <<",", " ">>) \o <<";">>

init_Table(variables, defvars) ==
    IF variables # <<>>
    THEN SetEntry(<<>>, VariablesKey, VariablesDef(defvars))
    ELSE <<>>

init_NamesKept(db) == IF ~db.exists THEN EmptyNames ELSE db.val

(* The registry init starts from: a new one, or the old one reset. *)
init_Names(db) == IF ~db.exists THEN EmptyNames ELSE reset(db.val)

----------------------------------------------------------------------------
(* Blockly.Cpp.finish *)

(* A character of the text finish builds, with where it comes from: the
   definition entry of that name, the body code, or finish itself. *)
FromDef(name) == <<"def", name>>
FromCode == <<"code">>
FromFinish == <<"finish">>

Mark(text, from) == [i \in 1..Len(text) |-> [c |-> text[i], from |-> from]]
Chars(marked) == [i \in 1..Len(marked) |-> marked[i].c]

ImportWord == <<"i", "m", "p", "o", "r", "t">>

(* def.match(/^import\s/) *)
IsImport(def) ==
    /\ Len(def) > Len(ImportWord)
    /\ SubSeq(def, 1, Len(ImportWord)) = ImportWord
    /\ def[Len(ImportWord) + 1] \in Whitespace

RECURSIVE NewlinePrefixLen(_)
NewlinePrefixLen(s) ==
    IF s # <<>> /\ Head(s).c = NL THEN 1 + NewlinePrefixLen(Tail(s)) ELSE 0

(* .replace(/\n\n+/g, '\n\n'): every run of two or more newlines becomes two. *)
RECURSIVE CollapseNewlines(_)
CollapseNewlines(s) ==
    IF s = <<>> THEN <<>>
    ELSE LET n == NewlinePrefixLen(s)
         IN  IF n >= 2
             THEN Mark(<<NL, NL>>, FromFinish) \o CollapseNewlines(SubSeq(s, n + 1, Len(s)))
             ELSE <<Head(s)>> \o CollapseNewlines(Tail(s))

RECURSIVE DropTrailingNewlines(_)
DropTrailingNewlines(s) ==
    IF s # <<>> /\ s[Len(s)].c = NL
    THEN DropTrailingNewlines(SubSeq(s, 1, Len(s) - 1))
    ELSE s

(* .replace(/\n*$/, '\n\n\n'): the newlines at the end become three. *)
EndWithThreeNewlines(s) ==
    DropTrailingNewlines(s) \o Mark(<<NL, NL, NL>>, FromFinish)

RECURSIVE MarkedTexts(_, _)
MarkedTexts(table, wantImports) ==
    IF table = <<>> THEN <<>>
    ELSE (IF IsImport(Head(table).def) = wantImports
          THEN <<Mark(Head(table).def, FromDef(Head(table).name))>>
          ELSE <<>>) \o MarkedTexts(Tail(table), wantImports)

AllDefs_InsertionOrder(table) ==
    join([i \in 1..Len(table) |-> Mark(table[i].def, FromDef(table[i].name))],
         Mark(<<NL, NL>>, FromFinish))

(* The loop over definitions_ that fills imports and definitions, and
   imports.join('\n') + '\n\n' + definitions.join('\n\n'). *)
AllDefs(table) ==
    LET imports == MarkedTexts(table, TRUE)
        definitions == MarkedTexts(table, FALSE)
    IN  join(imports, Mark(<<NL>>, FromFinish))
            \o Mark(<<NL, NL>>, FromFinish)
            \o join(definitions, Mark(<<NL, NL>>, FromFinish))

finish_Text_NoCollapse(table, code) ==
    EndWithThreeNewlines(AllDefs(table)) \o Mark(code, FromCode)

(* allDefs.replace(/\n\n+/g, '\n\n').replace(/\n*$/, '\n\n\n') + code *)
finish_Text(table, code) ==
    EndWithThreeNewlines(CollapseNewlines(AllDefs(table))) \o Mark(code, FromCode)

----------------------------------------------------------------------------
(* The generator over its passes *)

MaxVars == 2
MaxDefs == 2
MaxNames == 3

LogicalNames == {<<"x">>, <<"X">>, <<"d", "o">>}

(* workspace.getAllVariables(): the names of the workspace's variables, no
   two of them equal up to case. *)
Workspaces ==
    {w \in SeqsUpTo(LogicalNames, MaxVars) :
        \A i, j \in 1..Len(w) : i # j => toLowerCase(w[i]) # toLowerCase(w[j])}

DefNames == {"a", "b", "c"}

(* Texts the block generators record: an import, a text that only starts
   like one, a definition holding three blank lines, and one ending in a
   newline. *)
DefTexts ==
    {<<"i", "m", "p", "o", "r", "t", " ", "m">>,
     <<"i", "m", "p", "o", "r", "t", "s">>,
     <<"f", NL, NL, NL, NL, "g">>,
     <<"h", NL>>}

Codes == {<<>>, <<"c", ";", NL>>, <<NL, "c">>, <<"c", NL, NL, NL, NL, "d">>}

(* Some name of the workspace is already in the registry, as a key or as an
   emitted name, when init begins. *)
FoundInRegistry(workspace) ==
    /\ variableDB_.exists
    /\ \E i \in 1..Len(workspace) :
        \/ \E e \in variableDB_.val.db_ : e[1] = <<toLowerCase(workspace[i]), VARIABLE_TYPE>>
        \/ safeName_(workspace[i]) \in variableDB_.val.dbReverse_

Init ==
    /\ Loaded
    /\ call = [op |-> "load"]
    /\ ret = Void

init_KeepsTable(workspace) ==
    LET r == DefVars(init_Names(variableDB_), workspace)
        old == IF definitions_.exists THEN definitions_.val ELSE <<>>
        table == IF workspace # <<>>
                 THEN SetEntry(old, VariablesKey, VariablesDef(r.defvars))
                 ELSE old
    IN  /\ definitions_' = Obj(table)
        /\ functionNames_' = Obj(<<>>)
        /\ variableDB_' = Obj(r.names)
        /\ recorded' = init_Table(workspace, r.defvars)
        /\ stale' = FoundInRegistry(workspace)
        /\ call' = [op |-> "init", workspace |-> workspace]
        /\ ret' = Void

init(workspace) ==
    LET r == DefVars(init_Names(variableDB_), workspace)
        table == init_Table(workspace, r.defvars)
    IN  /\ definitions_' = Obj(table)
        /\ functionNames_' = Obj(<<>>)
        /\ variableDB_' = Obj(r.names)
        /\ recorded' = table
        /\ stale' = FoundInRegistry(workspace)
        /\ call' = [op |-> "init", workspace |-> workspace]
        /\ ret' = Void

(* A block generator records a definition: Blockly.Cpp.definitions_[name] = def. *)
Define(name, def) ==
    /\ definitions_.exists
    /\ Len(SetEntry(definitions_.val, name, def)) <= MaxDefs + 1
    /\ definitions_' = Obj(SetEntry(definitions_.val, name, def))
    /\ recorded' = SetEntry(recorded, name, def)
    /\ call' = [op |-> "define"]
    /\ ret' = Void
    /\ UNCHANGED <<functionNames_, variableDB_, stale>>

(* A block generator asks the registry for a name:
   Blockly.Cpp.variableDB_.getName(name, type). *)
RegisterName(name, type) ==
    /\ variableDB_.exists
    /\ Cardinality(getName(variableDB_.val, name, type).names.db_) <= MaxNames
    /\ variableDB_' = Obj(getName(variableDB_.val, name, type).names)
    /\ call' = [op |-> "getName"]
    /\ ret' = Str(getName(variableDB_.val, name, type).name)
    /\ UNCHANGED <<definitions_, functionNames_, recorded, stale>>

(* The for-in loop over an undefined definitions_ has nothing to visit and
   delete of a missing property does nothing; variableDB_.reset() on an
   undefined variableDB_ throws a TypeError after the two deletes. *)
finish(code) ==
    /\ definitions_' = Undefined
    /\ functionNames_' = Undefined
    /\ IF variableDB_.exists
       THEN /\ variableDB_' = Obj(reset(variableDB_.val))
            /\ ret' = Str(finish_Text(IF definitions_.exists THEN definitions_.val
                                      ELSE <<>>, code))
       ELSE /\ variableDB_' = variableDB_
            /\ ret' = Throw("TypeError")
    /\ call' = [op |-> "finish", code |-> code]
    /\ UNCHANGED <<recorded, stale>>

(* Passes in which the block generators record definitions. *)
Next ==
    \/ \E workspace \in Workspaces : init(workspace)
    \/ \E name \in DefNames, def \in DefTexts : Define(name, def)
    \/ \E code \in Codes : finish(code)

Spec == Init /\ [][Next]_vars

(* Passes in which the block generators ask the registry for names. *)
NextNames ==
    \/ \E workspace \in Workspaces : init(workspace)
    \/ \E name \in LogicalNames, type \in {VARIABLE_TYPE, PROCEDURE_TYPE} :
           RegisterName(name, type)
    \/ \E code \in Codes : finish(code)

SpecNames == Init /\ [][NextNames]_vars

----------------------------------------------------------------------------
(* What finish returns *)

Finished == call.op = "finish" /\ ret.type = "string"

HasNewlineRun(chars, n) ==
    \E i \in 1..(Len(chars) - n + 1) : \A k \in 0..(n - 1) : chars[i + k] = NL

(* C5 as stated: for every table content and every body code, what finish
   returns never holds four or more consecutive newlines. *)
C5_NoFourNewlines ==
    Finished => ~HasNewlineRun(Chars(ret.value), 4)

(* C5, amended: for every table content (the empty table and entries
   holding blank lines included) and every body code that neither begins
   with a newline nor itself holds four or more consecutive newlines, what
   finish returns never holds four or more consecutive newlines. *)
C5_NoFourNewlinesBeforeBody ==
    (/\ Finished
     /\ call.code # <<>> => call.code[1] # NL
     /\ ~HasNewlineRun(call.code, 4)) =>
        ~HasNewlineRun(Chars(ret.value), 4)

BlankLinesText == <<"f", NL, NL, NL, NL, "g">>

C5_Witness ==
    /\ Finished
    /\ call.code = <<"c", ";", NL>>
    /\ \E i \in 1..Len(recorded) : recorded[i].def = BlankLinesText
    /\ \E p, q \in 1..Len(ret.value) :
        /\ p < q
        /\ ret.value[p].c = "f"
        /\ ret.value[q].c = "g"
        /\ ret.value[p].from = ret.value[q].from
        /\ ret.value[p].from[1] = "def"

IsDef(from) == from[1] = "def"

(* The text recorded under the name a character of the output comes from. *)
TextOf(from) ==
    (CHOOSE e \in {recorded[i] : i \in 1..Len(recorded)} : e.name = from[2]).def

(* C6: in what finish returns, every entry whose text begins with 'import'
   and whitespace comes before every entry that does not, and every entry
   comes before the body code, whatever the order the entries were recorded
   in. *)
C6_ImportsThenDefinitionsThenBody ==
    Finished =>
        \A p, q \in 1..Len(ret.value) :
            LET a == ret.value[p].from
                b == ret.value[q].from
            IN  (p < q /\ IsDef(b)) =>
                    /\ a # FromCode
                    /\ IsDef(a) => (IsImport(TextOf(b)) => IsImport(TextOf(a)))

C6_Witness ==
    /\ Finished
    /\ Len(recorded) = 2
    /\ ~IsImport(recorded[1].def)
    /\ IsImport(recorded[2].def)
    /\ call.code # <<>>
    /\ \E p, q, r \in 1..Len(ret.value) :
        /\ p < q /\ q < r
        /\ ret.value[p].from = FromDef(recorded[2].name)
        /\ ret.value[q].from = FromDef(recorded[1].name)
        /\ ret.value[r].from = FromCode

(* C9: no call of init or finish throws, whatever the order of the calls. *)
C9_NoCallThrows == ret.type # "throw"

----------------------------------------------------------------------------
(* What a pass leaves behind *)

(* C8: the names a pass gives its workspace's variables do not depend on
   what earlier passes registered: after init, the 'variables' definition
   and the registry are the ones init produces on a newly loaded
   generator. *)
C8_SecondPassNamesAsFirstPass ==
    (call.op = "init") =>
        LET fresh == DefVars(EmptyNames, call.workspace)
        IN  /\ definitions_ = Obj(init_Table(call.workspace, fresh.defvars))
            /\ variableDB_ = Obj(fresh.names)

C8_Witness ==
    /\ call.op = "init"
    /\ stale
    /\ call.workspace = <<(<<"x">>), (<<"d", "o">>)>>
    /\ definitions_.val[1].def = <<"v", "a", "r", " ", "x", ",", " ", "d", "o", "2", ";">>

NonNewlines(text) == SelectSeq(text, LAMBDA c : c # NL)
CharsFrom(marked, from) == Chars(SelectSeq(marked, LAMBDA m : m.from = from))

(* The definitions in the output are exactly the entries of the table: each
   entry's characters are there (newlines apart, which finish rearranges),
   and no character comes from another entry. *)
EmittedIs(marked, table) ==
    /\ \A i \in 1..Len(table) :
           NonNewlines(CharsFrom(marked, FromDef(table[i].name))) = NonNewlines(table[i].def)
    /\ \A p \in 1..Len(marked) :
           IsDef(marked[p].from) =>
               \E i \in 1..Len(table) : marked[p].from = FromDef(table[i].name)

HasVariablesEntry(table) == \E i \in 1..Len(table) : table[i].name = VariablesKey

AfterInit ==
    /\ Len(definitions_.val) <= 1
    /\ HasVariablesEntry(definitions_.val) <=> (call.workspace # <<>>)

AfterFinish ==
    /\ definitions_ = Undefined
    /\ functionNames_ = Undefined
    /\ variableDB_ = Obj(EmptyNames)

(* C10 as stated: a finish call emits exactly the entries recorded since the
   most recent init; init leaves a table with the 'variables' entry alone,
   there iff the workspace has variables; after finish the two tables are
   gone and the registry is empty. *)
C10_EmitsEntriesSinceLastInit ==
    /\ (call.op = "init") => AfterInit
    /\ Finished => (EmittedIs(ret.value, recorded) /\ AfterFinish)

(* C10, amended: a finish call emits exactly the entries recorded since the
   most recent init when no other finish call came after that init, and no
   definition at all when one did; init replaces the table with one holding
   the 'variables' entry alone, there iff the workspace has variables; the
   table holds exactly the entries recorded since that init; after finish
   returns the two tables are gone and the registry is empty. *)
C10_EmitsEntriesSinceLastInitOnce ==
    [][/\ (call'.op = "init") => AfterInit'
       /\ definitions_'.exists => definitions_'.val = recorded'
       /\ Finished' =>
            /\ EmittedIs(ret'.value, IF definitions_.exists THEN recorded ELSE <<>>)
            /\ AfterFinish']_vars

C10_Witness ==
    /\ Finished
    /\ stale
    /\ Len(recorded) = 2
    /\ HasVariablesEntry(recorded)
    /\ \A i \in 1..Len(recorded) :
           \E p \in 1..Len(ret.value) : ret.value[p].from = FromDef(recorded[i].name)

====
